---- MODULE Spec2Model ----
(***************************************************************************)
(* Booze Buddy (src/app.py): per-user bar inventory, the cached client of  *)
(* TheCocktailDB and the cocktail endpoints that match recipes against the *)
(* inventory.                                                              *)
(*                                                                         *)
(* Strings are sequences of code points, so that str.lower(), str.strip()  *)
(* and the ordering of str are computed and not assumed.  None and the     *)
(* empty string / empty list are both the empty sequence: every place of   *)
(* the code that reads them only tests their truth value.                  *)
(***************************************************************************)
EXTENDS Integers, Sequences, FiniteSets, TLC

VARIABLES
    db,         \* rows of table inventory_items, in row order: [name, user_id]
    api_cache,  \* BoozeBuddy.api_cache: request signature -> stored response
    source,     \* which version of TheCocktailDB's data the remote source serves
    hashorder,  \* iteration order of a set of str in this process (hash seed)
    resp,       \* the response of the last request handled
    avail,      \* history: the answer of the last call of GET /cocktails/available/
                \* that met no adapter failure, kept while the inventory and the
                \* source's data stay as they were at that call
    inflight    \* the POST /inventory/ requests being handled in worker threads:
                \* where each one is and what its existence query returned

vars == <<db, api_cache, source, hashorder, resp, avail, inflight>>

----------------------------------------------------------------------------
(* Bounds of the model *)

\* largest number of items a user has put in the inventory before querying
MaxInv == 2
\* number of adapter requests of one call whose outcome is chosen freely
\* (later requests of the call succeed)
OracleLen == 2
\* largest number of failing adapter requests within one call
MaxFailures == 1

----------------------------------------------------------------------------
(* Strings *)

s_rum     == <<114, 117, 109>>                 \* "rum"
s_Rum     == <<82, 117, 109>>                  \* "Rum"
s_RUMsp   == <<32, 32, 82, 85, 77, 32>>        \* "  RUM "
s_gin     == <<103, 105, 110>>                 \* "gin"
s_Gin     == <<71, 105, 110>>                  \* "Gin"
s_lime    == <<108, 105, 109, 101>>            \* "lime"
s_Lime    == <<76, 105, 109, 101>>             \* "Lime"
s_1oz     == <<49, 32, 111, 122>>              \* "1 oz"
s_1ozsp   == <<32, 49, 32, 111, 122, 32>>      \* " 1 oz "
s_2oz     == <<50, 32, 111, 122>>              \* "2 oz"
s_Daiquiri  == <<68, 97, 105, 113, 117, 105, 114, 105>>
s_aviation  == <<97, 118, 105, 97, 116, 105, 111, 110>>            \* "aviation"
s_BeesKnees == <<66, 101, 101, 39, 115, 32, 75, 110, 101, 101, 115>>  \* "Bee's Knees"
s_a       == <<97>>                            \* "a"
s_blank   == <<32>>                            \* " "
s_vodka   == <<118, 111, 100, 107, 97>>
s_tequila == <<116, 101, 113, 117, 105, 108, 97>>
s_triple_sec      == <<116, 114, 105, 112, 108, 101, 32, 115, 101, 99>>
s_lime_juice      == <<108, 105, 109, 101, 32, 106, 117, 105, 99, 101>>
s_simple_syrup    == <<115, 105, 109, 112, 108, 101, 32, 115, 121, 114, 117, 112>>
s_orange_juice    == <<111, 114, 97, 110, 103, 101, 32, 106, 117, 105, 99, 101>>
s_cranberry_juice == <<99, 114, 97, 110, 98, 101, 114, 114, 121, 32, 106, 117, 105, 99, 101>>
id1 == <<49>>                                  \* "1"
id2 == <<50>>                                  \* "2"
id3 == <<51>>                                  \* "3"

\* str.isspace() for the ASCII range
WhiteSpace == {9, 10, 11, 12, 13, 32}

\* str.lower() on one code point (ASCII range)
LowerChar(c) == IF c >= 65 /\ c <= 90 THEN c + 32 ELSE c

\* str.lower()
Lower(s) == [i \in 1..Len(s) |-> LowerChar(s[i])]

RECURSIVE LStrip(_)
LStrip(s) == IF s # <<>> /\ Head(s) \in WhiteSpace THEN LStrip(Tail(s)) ELSE s

RECURSIVE RStrip(_)
RStrip(s) ==
    IF s # <<>> /\ s[Len(s)] \in WhiteSpace
    THEN RStrip(SubSeq(s, 1, Len(s) - 1)) ELSE s

\* str.strip()
Strip(s) == RStrip(LStrip(s))

\* a < b for str: by code point, a proper prefix first
RECURSIVE StrLess(_, _)
StrLess(a, b) ==
    IF b = <<>> THEN FALSE
    ELSE IF a = <<>> THEN TRUE
    ELSE IF Head(a) # Head(b) THEN Head(a) < Head(b)
    ELSE StrLess(Tail(a), Tail(b))

\* the elements of a list
Range(s) == {s[i] : i \in 1..Len(s)}

----------------------------------------------------------------------------
(* TheCocktailDB, the remote source behind api_base_url.  A drink is        *)
(* [idDrink, strDrink, slots]: slots[i] holds strIngredient<i> and           *)
(* strMeasure<i>; the slots after the last one are null.                     *)

Slot(ing, measure) == [strIngredient |-> ing, strMeasure |-> measure]

Daiquiri_v1  == [idDrink |-> id1, strDrink |-> s_Daiquiri,
                 slots |-> <<Slot(s_Rum, s_1ozsp)>>]
Daiquiri_v2  == [idDrink |-> id1, strDrink |-> s_Daiquiri,
                 slots |-> <<Slot(s_RUMsp, s_1ozsp)>>]
Aviation     == [idDrink |-> id2, strDrink |-> s_aviation,
                 slots |-> <<Slot(s_Gin, s_1oz), Slot(<<>>, <<>>), Slot(s_Lime, <<>>)>>]
BeesKnees    == [idDrink |-> id3, strDrink |-> s_BeesKnees,
                 slots |-> <<Slot(s_Gin, s_1oz), Slot(s_Rum, <<>>), Slot(s_gin, s_2oz)>>]

\* (Bee's Knees lists gin in two slots: the source repeats an ingredient that
\* goes in at two moments)
\* the versions of the source's data: in version 2 the Daiquiri's ingredient is
\* written "  RUM " and recipe 2 has been withdrawn (lookup answers drinks: null)
\* while filter.php still lists it
SourceVersions == {1, 2}

\* the body the source serves for a request, {"drinks": [...]} as the list
\* (drinks: null is the empty list)
SourceData(v, endpoint, param) ==
    CASE endpoint = "filter.php" ->
            (CASE param = s_rum  -> <<[idDrink |-> id1], [idDrink |-> id3]>>
               [] param = s_gin  -> <<[idDrink |-> id3], [idDrink |-> id2], [idDrink |-> id3]>>
               [] param = s_lime -> <<[idDrink |-> id2]>>
               [] OTHER -> <<>>)
      [] endpoint = "lookup.php" ->
            (CASE param = id1 -> IF v = 1 THEN <<Daiquiri_v1>> ELSE <<Daiquiri_v2>>
               [] param = id2 -> IF v = 1 THEN <<Aviation>> ELSE <<>>
               [] param = id3 -> <<BeesKnees>>
               [] OTHER -> <<>>)
      [] endpoint = "search.php" ->
            (CASE param = s_a ->
                      IF v = 1 THEN <<Daiquiri_v1, Aviation>> ELSE <<Daiquiri_v2>>
               [] OTHER -> <<>>)
      [] OTHER -> <<>>

----------------------------------------------------------------------------
(* BoozeBuddy.api_request and the two lookups built on it.  The state of a  *)
(* call is threaded through: st = [cache, orc, log, raised].  orc is the     *)
(* outcome of the adapter requests the call is about to send, in order       *)
(* ("ok", or the exception requests.get / raise_for_status raises); log      *)
(* holds the signatures whose failure api_request printed; raised says an    *)
(* exception left api_request.                                               *)

\* requests.exceptions.RequestException and the subclasses a network error
\* (ConnectionError) and a non-success status (HTTPError) raise
RequestException == {"ConnectionError", "HTTPError"}

Outcomes == {"ok"} \cup RequestException

\* except requests.exceptions.RequestException
CaughtOnlyConnectionError(exc) == exc = "ConnectionError"
Caught(exc) == exc \in RequestException

\* cache_key = endpoint + json.dumps(params)
CacheKey(endpoint, param) == <<endpoint, param>>

NextOutcome(st) == IF st.orc = <<>> THEN "ok" ELSE Head(st.orc)

\* api_request without the line self.api_cache[cache_key] = data
ApiRequestNoStore(st, endpoint, param) ==
    LET key == CacheKey(endpoint, param)
        out == NextOutcome(st)
        sent == [st EXCEPT !.orc = IF st.orc = <<>> THEN <<>> ELSE Tail(st.orc)]
    IN  IF key \in DOMAIN st.cache
        THEN [st |-> st, data |-> st.cache[key]]
        ELSE IF out = "ok"
        THEN [st |-> sent, data |-> SourceData(source, endpoint, param)]
        ELSE IF Caught(out)
        THEN [st |-> [sent EXCEPT !.log = Append(st.log, key)], data |-> <<>>]
        ELSE [st |-> [sent EXCEPT !.raised = TRUE], data |-> <<>>]

\* api_request storing the empty result of a failed request as well
ApiRequestStoringFailure(st, endpoint, param) ==
    LET key == CacheKey(endpoint, param)
        out == NextOutcome(st)
        sent == [st EXCEPT !.orc = IF st.orc = <<>> THEN <<>> ELSE Tail(st.orc)]
    IN  IF key \in DOMAIN st.cache
        THEN [st |-> st, data |-> st.cache[key]]
        ELSE IF out = "ok"
        THEN LET data == SourceData(source, endpoint, param)
             IN  [st |-> [sent EXCEPT !.cache = (key :> data) @@ st.cache],
                  data |-> data]
        ELSE IF Caught(out)
        THEN [st |-> [sent EXCEPT !.log = Append(st.log, key),
                                  !.cache = (key :> <<>>) @@ st.cache],
              data |-> <<>>]
        ELSE [st |-> [sent EXCEPT !.raised = TRUE], data |-> <<>>]

\* api_request without "if cache_key in self.api_cache: return ...": every
\* request contacts the source and stores what it answers
ApiRequestNoLookup(st, endpoint, param) ==
    LET key == CacheKey(endpoint, param)
        out == NextOutcome(st)
        sent == [st EXCEPT !.orc = IF st.orc = <<>> THEN <<>> ELSE Tail(st.orc)]
    IN  IF out = "ok"
        THEN LET data == SourceData(source, endpoint, param)
             IN  [st |-> [sent EXCEPT !.cache =
                            [k \in DOMAIN st.cache \cup {key} |->
                                IF k = key THEN data ELSE st.cache[k]]],
                  data |-> data]
        ELSE IF Caught(out)
        THEN [st |-> [sent EXCEPT !.log = Append(st.log, key)], data |-> <<>>]
        ELSE [st |-> [sent EXCEPT !.raised = TRUE], data |-> <<>>]

\* returns [st, data]
ApiRequest(st, endpoint, param) ==
    LET key == CacheKey(endpoint, param)
        out == NextOutcome(st)
        sent == [st EXCEPT !.orc = IF st.orc = <<>> THEN <<>> ELSE Tail(st.orc)]
    IN  IF key \in DOMAIN st.cache
        THEN [st |-> st, data |-> st.cache[key]]
        ELSE IF out = "ok"
        THEN LET data == SourceData(source, endpoint, param)
             IN  [st |-> [sent EXCEPT !.cache = (key :> data) @@ st.cache],
                  data |-> data]
        ELSE IF Caught(out)
        THEN [st |-> [sent EXCEPT !.log = Append(st.log, key)], data |-> <<>>]
        ELSE [st |-> [sent EXCEPT !.raised = TRUE], data |-> <<>>]

\* BoozeBuddy.search_cocktails_by_ingredient: [st, data]
SearchCocktailsByIngredient(st, ingredient) ==
    ApiRequest(st, "filter.php", ingredient)

\* get_cocktail_details without the test of data.get("drinks"): data["drinks"][0]
\* raises on drinks: null
GetCocktailDetailsUnchecked(st, cocktail_id) ==
    LET r == ApiRequest(st, "lookup.php", cocktail_id)
    IN  IF r.data = <<>>
        THEN [st |-> [r.st EXCEPT !.raised = TRUE], data |-> <<>>]
        ELSE [st |-> r.st, data |-> <<r.data[1]>>]

\* BoozeBuddy.get_cocktail_details: [st, data], data = <<>> for None and
\* <<drink>> for data["drinks"][0]
GetCocktailDetails(st, cocktail_id) ==
    LET r == ApiRequest(st, "lookup.php", cocktail_id)
    IN  [st |-> r.st,
         data |-> IF r.data = <<>> THEN <<>> ELSE <<r.data[1]>>]

----------------------------------------------------------------------------
(* A Python dict is the list of its [key, value] items in insertion order.  *)

DictKeys(d) == [i \in 1..Len(d) |-> d[i].key]

DictHasNever(d, k) == FALSE
DictHas(d, k) == \E i \in 1..Len(d) : d[i].key = k

\* d[k] = v: a new key goes last, an old key keeps its place
DictSet(d, k, v) ==
    IF DictHas(d, k)
    THEN [i \in 1..Len(d) |-> IF d[i].key = k THEN [key |-> k, value |-> v] ELSE d[i]]
    ELSE Append(d, [key |-> k, value |-> v])

----------------------------------------------------------------------------
(* The matching block, repeated in get_available_cocktails,                 *)
(* find_cocktails_by_spirit and search_cocktails_by_name.                   *)

\* range(1, 16): the API supports up to 15 ingredients
NumSlots == 15

\* details.get(f"strIngredient{i}") / details.get(f"strMeasure{i}")
StrIngredient(details, i) ==
    IF i <= Len(details.slots) THEN details.slots[i].strIngredient ELSE <<>>
StrMeasure(details, i) ==
    IF i <= Len(details.slots) THEN details.slots[i].strMeasure ELSE <<>>

\* the loop over the slots i..15 filling the dict ingredients
RECURSIVE ExtractIngredients(_, _, _)
ExtractIngredients(details, i, ingredients) ==
    IF i > NumSlots THEN ingredients
    ELSE IF StrIngredient(details, i) # <<>>
    THEN ExtractIngredients(details, i + 1,
            DictSet(ingredients, Lower(StrIngredient(details, i)),
                    Strip(StrMeasure(details, i))))
    ELSE ExtractIngredients(details, i + 1, ingredients)

\* missing = set(); ... if ingredient_name.lower() not in db_inventory: missing.add(...)
MissingSet(ingredients, db_inventory) ==
    {n \in Range(DictKeys(ingredients)) : Lower(n) \notin Range(db_inventory)}

\* the dict stored under the cocktail's id
CocktailInfo(details, db_inventory) ==
    LET ingredients == ExtractIngredients(details, 1, <<>>)
        missing == MissingSet(ingredients, db_inventory)
    IN  [name |-> details.strDrink,
         ingredients |-> ingredients,
         missing |-> missing,
         can_make |-> missing = {}]

----------------------------------------------------------------------------
(* BoozeBuddy.get_available_cocktails, find_cocktails_by_spirit and          *)
(* search_cocktails_by_name.  Each returns [st, dict]; an exception that     *)
(* left api_request ends the loops (st.raised).                              *)

\* the loop "for cocktail in cocktails" of get_available_cocktails
RECURSIVE AvailableLoopCocktails(_, _, _)
AvailableLoopCocktails(acc, cocktails, db_inventory) ==
    IF cocktails = <<>> \/ acc.st.raised THEN acc
    ELSE LET cocktail_id == Head(cocktails).idDrink
         IN  IF DictHas(acc.dict, cocktail_id)
             THEN AvailableLoopCocktails(acc, Tail(cocktails), db_inventory)
             ELSE LET r == GetCocktailDetails(acc.st, cocktail_id)
                  IN  IF r.data = <<>>
                      THEN AvailableLoopCocktails([acc EXCEPT !.st = r.st],
                                                  Tail(cocktails), db_inventory)
                      ELSE AvailableLoopCocktails(
                               [st |-> r.st,
                                dict |-> DictSet(acc.dict, cocktail_id,
                                                 CocktailInfo(r.data[1], db_inventory))],
                               Tail(cocktails), db_inventory)

\* the loop "for ingredient in db_inventory" over the rest of the inventory
RECURSIVE AvailableLoopInventory(_, _, _)
AvailableLoopInventory(acc, rest, db_inventory) ==
    IF rest = <<>> \/ acc.st.raised THEN acc
    ELSE LET r == SearchCocktailsByIngredient(acc.st, Head(rest))
         IN  AvailableLoopInventory(
                 AvailableLoopCocktails([acc EXCEPT !.st = r.st], r.data, db_inventory),
                 Tail(rest), db_inventory)

\* get_available_cocktails without "if not inventory: return {}", looking up a
\* stock spirit when the inventory names none
BoozeGetAvailableCocktailsStockSpirit(st, db_inventory) ==
    AvailableLoopInventory([st |-> st, dict |-> <<>>],
                           IF db_inventory = <<>> THEN <<s_gin>> ELSE db_inventory,
                           db_inventory)

BoozeGetAvailableCocktails(st, db_inventory) ==
    IF db_inventory = <<>> THEN [st |-> st, dict |-> <<>>]
    ELSE AvailableLoopInventory([st |-> st, dict |-> <<>>], db_inventory, db_inventory)

\* the loop "for cocktail in cocktails" of find_cocktails_by_spirit
RECURSIVE SpiritLoopCocktails(_, _, _)
SpiritLoopCocktails(acc, cocktails, db_inventory) ==
    IF cocktails = <<>> \/ acc.st.raised THEN acc
    ELSE LET cocktail_id == Head(cocktails).idDrink
             r == GetCocktailDetails(acc.st, cocktail_id)
         IN  IF r.data = <<>>
             THEN SpiritLoopCocktails([acc EXCEPT !.st = r.st],
                                      Tail(cocktails), db_inventory)
             ELSE SpiritLoopCocktails(
                      [st |-> r.st,
                       dict |-> DictSet(acc.dict, cocktail_id,
                                        CocktailInfo(r.data[1], db_inventory))],
                      Tail(cocktails), db_inventory)

FindCocktailsBySpirit(st, spirit, db_inventory) ==
    LET r == SearchCocktailsByIngredient(st, spirit)
    IN  SpiritLoopCocktails([st |-> r.st, dict |-> <<>>], r.data, db_inventory)

\* the loop "for drink in data['drinks']" of search_cocktails_by_name
RECURSIVE SearchLoopDrinks(_, _, _)
SearchLoopDrinks(results, drinks, db_inventory) ==
    IF drinks = <<>> THEN results
    ELSE SearchLoopDrinks(
             DictSet(results, Head(drinks).idDrink, CocktailInfo(Head(drinks), db_inventory)),
             Tail(drinks), db_inventory)

SearchCocktailsByName(st, name, db_inventory) ==
    LET r == ApiRequest(st, "search.php", name)
    IN  [st |-> r.st, dict |-> SearchLoopDrinks(<<>>, r.data, db_inventory)]

----------------------------------------------------------------------------
(* The endpoints' conversion of the dict to the CocktailList response.      *)

\* list(info["missing"]): the elements of the set in the process's hash order
RECURSIVE ListOfSetFrom(_, _)
ListOfSetFrom(order, S) ==
    IF order = <<>> THEN <<>>
    ELSE IF Head(order) \in S
    THEN <<Head(order)>> \o ListOfSetFrom(Tail(order), S)
    ELSE ListOfSetFrom(Tail(order), S)

ListOfSet(S) == ListOfSetFrom(hashorder, S)

\* [{"name": name, "measure": measure} for name, measure in info["ingredients"].items()]
IngredientList(ingredients) ==
    [i \in 1..Len(ingredients) |->
        [name |-> ingredients[i].key, measure |-> ingredients[i].value]]

\* the loop "for id, info in cocktails.items()"
ResultList(cocktails) ==
    [i \in 1..Len(cocktails) |->
        [id |-> cocktails[i].key,
         name |-> cocktails[i].value.name,
         ingredients |-> IngredientList(cocktails[i].value.ingredients),
         can_make |-> cocktails[i].value.can_make,
         missing |-> ListOfSet(cocktails[i].value.missing)]]

\* key=lambda x: (not x["can_make"], x["name"]), compared as tuples (False < True)
SortKeyLessNameOnly(x, y) == StrLess(x.name, y.name)
SortKeyLess(x, y) ==
    \/ x.can_make /\ ~y.can_make
    \/ x.can_make = y.can_make /\ StrLess(x.name, y.name)

\* list.sort is stable: x goes after the elements it is not less than
RECURSIVE SortInsert(_, _)
SortInsert(sorted, x) ==
    IF sorted = <<>> THEN <<x>>
    ELSE IF SortKeyLess(x, Head(sorted)) THEN <<x>> \o sorted
    ELSE <<Head(sorted)>> \o SortInsert(Tail(sorted), x)

RECURSIVE SortFrom(_, _)
SortFrom(sorted, rest) ==
    IF rest = <<>> THEN sorted
    ELSE SortFrom(SortInsert(sorted, Head(rest)), Tail(rest))

\* result.sort(key=...)
Sort(result) == SortFrom(<<>>, result)

\* the CocktailList body without result.sort(...)
CocktailListUnsorted(cocktails) ==
    LET result == ResultList(cocktails)
    IN  [cocktails |-> result,
         can_make_count |-> Cardinality({i \in 1..Len(result) : result[i].can_make}),
         total_count |-> Len(result)]

\* the CocktailList body
CocktailList(cocktails) ==
    LET result == Sort(ResultList(cocktails))
    IN  [cocktails |-> result,
         can_make_count |-> Cardinality({i \in 1..Len(result) : result[i].can_make}),
         total_count |-> Len(result)]

----------------------------------------------------------------------------
(* The inventory store: table inventory_items through a Session with        *)
(* autoflush=False, so a query does not see the rows added and not yet      *)
(* committed.  The operators take and return the committed rows.            *)

Users == {1, 2}

Row(name, user_id) == [name |-> name, user_id |-> user_id]

\* db.query(InventoryItem).filter(InventoryItem.user_id == user_id).all()
RECURSIVE RowsOfUser(_, _)
RowsOfUser(rows, user_id) ==
    IF rows = <<>> THEN <<>>
    ELSE IF Head(rows).user_id = user_id
    THEN <<Head(rows)>> \o RowsOfUser(Tail(rows), user_id)
    ELSE RowsOfUser(Tail(rows), user_id)

\* get_current_inventory without the filter on user_id
GetCurrentInventoryUnscoped(rows, user_id) == [i \in 1..Len(rows) |-> rows[i].name]

\* get_current_inventory ("if user_id:" is false for 0 and None)
GetCurrentInventory(rows, user_id) ==
    LET items == IF user_id # 0 THEN RowsOfUser(rows, user_id) ELSE rows
    IN  [i \in 1..Len(items) |-> items[i].name]

\* db.query(InventoryItem).filter(name == n, user_id == u).first() finds a row
ExistingItem(rows, name, user_id) ==
    \E i \in 1..Len(rows) : rows[i].name = name /\ rows[i].user_id = user_id

\* add_to_inventory: the rows after the commit
DbAddToInventory(rows, user_id, item_name) ==
    IF ~ExistingItem(rows, Lower(item_name), user_id)
    THEN Append(rows, Row(Lower(item_name), user_id))
    ELSE rows

\* the rows without the first row of the user with the name, if there is one
RECURSIVE DeleteFirst(_, _, _)
DeleteFirst(rows, name, user_id) ==
    IF rows = <<>> THEN <<>>
    ELSE IF Head(rows).name = name /\ Head(rows).user_id = user_id THEN Tail(rows)
    ELSE <<Head(rows)>> \o DeleteFirst(Tail(rows), name, user_id)

\* remove_from_inventory: the rows after the commit
DbRemoveFromInventory(rows, user_id, item_name) ==
    DeleteFirst(rows, Lower(item_name), user_id)

\* add_common_ingredients: the loop adds to the session the items its query
\* does not find among the committed rows; the commit inserts them in order
RECURSIVE PendingCommon(_, _, _)
PendingCommon(rows, user_id, items) ==
    IF items = <<>> THEN <<>>
    ELSE IF ~ExistingItem(rows, Lower(Head(items)), user_id)
    THEN <<Row(Lower(Head(items)), user_id)>> \o PendingCommon(rows, user_id, Tail(items))
    ELSE PendingCommon(rows, user_id, Tail(items))

DbAddCommonIngredients(rows, user_id, items) ==
    rows \o PendingCommon(rows, user_id, items)

\* initialize_demo
demo_items ==
    <<s_vodka, s_gin, s_rum, s_tequila, s_triple_sec,
      s_lime_juice, s_simple_syrup, s_orange_juice, s_cranberry_juice>>

\* db.query(InventoryItem).filter(InventoryItem.user_id == user_id).delete()
RECURSIVE DeleteOfUser(_, _)
DeleteOfUser(rows, user_id) ==
    IF rows = <<>> THEN <<>>
    ELSE IF Head(rows).user_id = user_id THEN DeleteOfUser(Tail(rows), user_id)
    ELSE <<Head(rows)>> \o DeleteOfUser(Tail(rows), user_id)

DbInitializeDemo(rows, user_id) ==
    DeleteOfUser(rows, user_id)
        \o [i \in 1..Len(demo_items) |-> Row(Lower(demo_items[i]), user_id)]

\* sorted(inventory_items)
RECURSIVE SortedInsert(_, _)
SortedInsert(sorted, x) ==
    IF sorted = <<>> THEN <<x>>
    ELSE IF StrLess(x, Head(sorted)) THEN <<x>> \o sorted
    ELSE <<Head(sorted)>> \o SortedInsert(Tail(sorted), x)

RECURSIVE SortedFrom(_, _)
SortedFrom(sorted, rest) ==
    IF rest = <<>> THEN sorted
    ELSE SortedFrom(SortedInsert(sorted, Head(rest)), Tail(rest))

Sorted(items) == SortedFrom(<<>>, items)

----------------------------------------------------------------------------
(* The cocktail endpoints.  Each handles one request of user u; orc is the  *)
(* outcome of the adapter requests it sends.  An exception leaving the       *)
(* handler is answered 500 by the framework.                                *)

\* the lists of length at most n over S
BoundedSeq(S, n) == UNION {[1..k -> S] : k \in 0..n}

\* the outcomes of the first OracleLen adapter requests of a call (search and
\* details send one request at most, and draw its outcome alone)
Oracles ==
    {o \in [1..OracleLen -> Outcomes] :
        Cardinality({i \in 1..OracleLen : o[i] # "ok"}) <= MaxFailures}

NewCall(orc) == [cache |-> api_cache, orc |-> orc, log |-> <<>>, raised |-> FALSE]

\* the answer to a call that ended in state st with the 200 body given
Answer(op, u, arg, st, body) ==
    [op |-> op, user |-> u, arg |-> arg, log |-> st.log,
     status |-> IF st.raised THEN 500 ELSE 200,
     body |-> IF st.raised THEN [cocktails |-> <<>>, can_make_count |-> 0, total_count |-> 0]
              ELSE body]

\* no call of the available endpoint to compare the next one with
NoAvail ==
    [user |-> 0, repeated |-> FALSE,
     body |-> [cocktails |-> <<>>, can_make_count |-> 0, total_count |-> 0]]

\* no request handled yet
NoResponse ==
    [op |-> "none", user |-> 0, arg |-> <<>>, log |-> <<>>, status |-> 200,
     body |-> [cocktails |-> <<>>, can_make_count |-> 0, total_count |-> 0]]

\* GET /cocktails/available/
GetAvailableCocktails(u, orc) ==
    LET inventory_items == GetCurrentInventory(db, u)
        r == BoozeGetAvailableCocktails(NewCall(orc), inventory_items)
    IN  /\ api_cache' = r.st.cache
        /\ resp' = Answer("available", u, <<>>, r.st, CocktailList(r.dict))
        /\ avail' = IF r.st.log = <<>> /\ ~r.st.raised
                     THEN [user |-> u, body |-> resp'.body, repeated |-> avail.user = u]
                     ELSE NoAvail
        /\ UNCHANGED <<db, source, hashorder, inflight>>

\* the by-spirit handler if it also stored the spirit asked for in the caller's
\* inventory
GetCocktailsBySpiritStoring(u, spirit, orc) ==
    LET inventory_items == GetCurrentInventory(db, u)
        r == FindCocktailsBySpirit(NewCall(orc), Lower(spirit), inventory_items)
    IN  /\ api_cache' = r.st.cache
        /\ resp' = Answer("by-spirit", u, spirit, r.st, CocktailList(r.dict))
        /\ db' = DbAddToInventory(db, u, spirit)
        /\ UNCHANGED <<source, hashorder, avail, inflight>>

\* GET /cocktails/by-spirit/{spirit}
GetCocktailsBySpirit(u, spirit, orc) ==
    LET inventory_items == GetCurrentInventory(db, u)
        r == FindCocktailsBySpirit(NewCall(orc), Lower(spirit), inventory_items)
    IN  /\ api_cache' = r.st.cache
        /\ resp' = Answer("by-spirit", u, spirit, r.st, CocktailList(r.dict))
        /\ UNCHANGED <<db, source, hashorder, avail, inflight>>

\* POST /cocktails/search/
SearchCocktails(u, query, orc) ==
    LET inventory_items == GetCurrentInventory(db, u)
        r == SearchCocktailsByName(NewCall(orc), query, inventory_items)
    IN  /\ api_cache' = r.st.cache
        /\ resp' = Answer("search", u, query, r.st, CocktailList(r.dict))
        /\ UNCHANGED <<db, source, hashorder, avail, inflight>>

\* the loop over the slots i..15 of the details endpoint: [ingredients, missing]
RECURSIVE DetailsLoop(_, _, _, _)
DetailsLoop(details, i, acc, inventory_items) ==
    IF i > NumSlots THEN acc
    ELSE IF StrIngredient(details, i) # <<>>
    THEN LET ingredient_name == Lower(StrIngredient(details, i))
         IN  DetailsLoop(details, i + 1,
                [ingredients |-> Append(acc.ingredients,
                                    [name |-> ingredient_name,
                                     measure |-> Strip(StrMeasure(details, i))]),
                 missing |-> IF ingredient_name \notin Range(inventory_items)
                             THEN Append(acc.missing, ingredient_name)
                             ELSE acc.missing],
                inventory_items)
    ELSE DetailsLoop(details, i + 1, acc, inventory_items)

\* GET /cocktails/details/{cocktail_id}
GetCocktailDetailsEndpoint(u, cocktail_id, orc) ==
    LET inventory_items == GetCurrentInventory(db, u)
        r == GetCocktailDetails(NewCall(orc), cocktail_id)
        x == DetailsLoop(r.data[1], 1, [ingredients |-> <<>>, missing |-> <<>>],
                         inventory_items)
    IN  /\ api_cache' = r.st.cache
        /\ resp' = [op |-> "details", user |-> u, arg |-> cocktail_id, log |-> r.st.log,
                    status |-> IF r.st.raised THEN 500
                               ELSE IF r.data = <<>> THEN 404 ELSE 200,
                    body |-> IF r.st.raised \/ r.data = <<>>
                             THEN [cocktails |-> <<>>, can_make_count |-> 0, total_count |-> 0]
                             ELSE [cocktails |->
                                     <<[id |-> cocktail_id,
                                        name |-> r.data[1].strDrink,
                                        ingredients |-> x.ingredients,
                                        can_make |-> x.missing = <<>>,
                                        missing |-> x.missing]>>,
                                   can_make_count |-> 0, total_count |-> 0]]
        /\ UNCHANGED <<db, source, hashorder, avail, inflight>>

\* the source's data changes (the remote database is edited)
SourceChange ==
    /\ source = 1
    /\ source' = 2
    /\ resp' = NoResponse
    /\ avail' = NoAvail
    /\ UNCHANGED <<db, api_cache, hashorder, inflight>>

----------------------------------------------------------------------------
(* The worker threads.  The endpoints are plain "def" functions, which the  *)
(* framework runs in a thread pool: two requests can be between their        *)
(* existence query and their commit at the same time.                        *)

\* number of POST /inventory/ requests handled at the same time
MaxWorkers == 2

Workers == 1..MaxWorkers

\* a worker that handles no request
Idle == [pc |-> "idle", user |-> 0, name |-> <<>>, existing |-> FALSE]

NoInflight == [w \in Workers |-> Idle]

----------------------------------------------------------------------------
(* The cocktail service: a process whose users have stocked their bar.      *)

\* what users type as an ingredient name
ItemNames == {s_Rum, s_gin}

\* the spirits asked for, the search queries and the identifiers looked up
Spirits == {s_Gin}
Queries == {s_a}
CocktailIds == {id2}

\* the lower-cased ingredient names of the source's recipes: the strings a
\* set of missing ingredients can hold
Drinks == {Daiquiri_v1, Daiquiri_v2, Aviation, BeesKnees}
IngredientKeys ==
    {Lower(d.slots[i].strIngredient) : <<d, i>> \in
        {<<d, i>> \in Drinks \X (1..NumSlots) :
            i <= Len(d.slots) /\ d.slots[i].strIngredient # <<>>}}

\* the orders a process can iterate a set of str in: the order depends on the
\* process's hash seed; the model draws it from one order and its reverse, which
\* gives every two strings both of their relative orders
Reverse(s) == [i \in 1..Len(s) |-> s[Len(s) + 1 - i]]
SetToSeq(S) == CHOOSE o \in [1..Cardinality(S) -> S] : Range(o) = S
HashOrders == {Sorted(SetToSeq(IngredientKeys)), Reverse(Sorted(SetToSeq(IngredientKeys)))}

RECURSIVE AddAll(_, _, _)
AddAll(rows, user_id, names) ==
    IF names = <<>> THEN rows
    ELSE AddAll(DbAddToInventory(rows, user_id, Head(names)), user_id, Tail(names))

\* what user 2 has stocked before user 1 starts
OtherItems == <<s_gin>>

InitCocktails ==
    /\ db \in {AddAll(AddAll(<<>>, 2, OtherItems), 1, names) :
                    names \in BoundedSeq(ItemNames, MaxInv)}
    /\ api_cache = <<>>
    /\ source = 1
    /\ hashorder \in HashOrders
    /\ resp = NoResponse
    /\ avail = NoAvail
    /\ inflight = NoInflight

NextCocktails ==
    \/ \E orc \in Oracles : GetAvailableCocktails(1, orc)
    \/ \E spirit \in Spirits, orc \in Oracles : GetCocktailsBySpirit(1, spirit, orc)
    \/ \E query \in Queries, out \in Outcomes : SearchCocktails(1, query, <<out>>)
    \/ \E cocktail_id \in CocktailIds, out \in Outcomes :
            GetCocktailDetailsEndpoint(1, cocktail_id, <<out>>)
    \/ SourceChange

SpecCocktails == InitCocktails /\ [][NextCocktails]_vars

----------------------------------------------------------------------------
(* The inventory endpoints.                                                 *)

InventoryResponse(op, u, arg, rows, message) ==
    [op |-> op, user |-> u, arg |-> arg, log |-> <<>>, status |-> 200,
     body |-> [inventory |-> Sorted(GetCurrentInventory(rows, u)), message |-> message]]

\* GET /inventory/
GetInventory(u) ==
    /\ resp' = InventoryResponse("inventory", u, <<>>, db, "items")
    /\ UNCHANGED <<db, api_cache, source, hashorder, avail, inflight>>

\* POST /inventory/
AddToInventory(u, item_name) ==
    /\ db' = DbAddToInventory(db, u, item_name)
    /\ resp' = InventoryResponse("add", u, item_name, db', "added")
    /\ avail' = IF db' = db THEN avail ELSE NoAvail
    /\ UNCHANGED <<api_cache, source, hashorder, inflight>>

\* DELETE /inventory/{item_name}
RemoveFromInventory(u, item_name) ==
    /\ db' = DbRemoveFromInventory(db, u, item_name)
    /\ resp' = InventoryResponse("remove", u, item_name, db',
                    IF ExistingItem(db, Lower(item_name), u)
                    THEN "removed" ELSE "not in your inventory")
    /\ avail' = IF db' = db THEN avail ELSE NoAvail
    /\ UNCHANGED <<api_cache, source, hashorder, inflight>>

\* POST /inventory/add-common/
AddCommonIngredients(u, items) ==
    /\ db' = DbAddCommonIngredients(db, u, items)
    /\ resp' = InventoryResponse("add-common", u, items, db', "added common")
    /\ avail' = IF db' = db THEN avail ELSE NoAvail
    /\ UNCHANGED <<api_cache, source, hashorder, inflight>>

\* POST /demo/initialize/
InitializeDemo(u) ==
    /\ db' = DbInitializeDemo(db, u)
    /\ resp' = InventoryResponse("demo", u, <<>>, db', "demo initialized")
    /\ avail' = IF db' = db THEN avail ELSE NoAvail
    /\ UNCHANGED <<api_cache, source, hashorder, inflight>>

\* the longest list posted to add-common
MaxBatch == 2

\* what users post to add, to remove and to add-common
AddedNames == {s_Rum, s_blank}
RemovedNames == {s_rum, s_Lime}
CommonNames == {s_Lime}

\* the users who ask for the demo inventory, and those who post to add-common
DemoUsers == {1}
CommonUsers == {1}

InitInventory ==
    /\ db = <<>>
    /\ api_cache = <<>>
    /\ source = 1
    /\ hashorder \in HashOrders
    /\ resp = NoResponse
    /\ avail = NoAvail
    /\ inflight = NoInflight

NextInventory ==
    \/ \E u \in Users : GetInventory(u)
    \/ \E u \in Users, item_name \in AddedNames : AddToInventory(u, item_name)
    \/ \E u \in Users, item_name \in RemovedNames : RemoveFromInventory(u, item_name)
    \/ \E u \in CommonUsers, items \in BoundedSeq(CommonNames, MaxBatch) :
            AddCommonIngredients(u, items)
    \/ \E u \in DemoUsers : InitializeDemo(u)

SpecInventory == InitInventory /\ [][NextInventory]_vars

----------------------------------------------------------------------------
(* POST /inventory/ in worker threads: the existence query and the commit   *)
(* of one request are two steps, and other requests run in between.  Each    *)
(* request has its own Session; the table has no unique constraint, so the   *)
(* INSERT of a commit always succeeds.                                       *)

\* existing_item = db.query(InventoryItem).filter(...).first()
AddCheck(w, u, item_name) ==
    /\ inflight[w].pc = "idle"
    /\ inflight' = [inflight EXCEPT ![w] =
                        [pc |-> "checked", user |-> u, name |-> item_name,
                         existing |-> ExistingItem(db, Lower(item_name), u)]]
    /\ UNCHANGED <<db, api_cache, source, hashorder, resp, avail>>

\* if not existing_item: db.add(db_item); db.commit(); then the response
AddCommit(w) ==
    LET u == inflight[w].user
        item_name == inflight[w].name
    IN  /\ inflight[w].pc = "checked"
        /\ db' = IF ~inflight[w].existing
                 THEN Append(db, Row(Lower(item_name), u))
                 ELSE db
        /\ resp' = InventoryResponse("add", u, item_name, db', "added")
        /\ avail' = IF db' = db THEN avail ELSE NoAvail
        /\ inflight' = [inflight EXCEPT ![w] = Idle]
        /\ UNCHANGED <<api_cache, source, hashorder>>

\* the most rows the table holds in the model
MaxRows == 3

\* what the concurrent requests post and delete
RacedNames == {s_Rum, s_rum}

InitConcurrent ==
    /\ db = <<>>
    /\ api_cache = <<>>
    /\ source = 1
    /\ hashorder \in HashOrders
    /\ resp = NoResponse
    /\ avail = NoAvail
    /\ inflight = NoInflight

NextConcurrent ==
    \/ \E w \in Workers, u \in Users, item_name \in RacedNames :
            Len(db) < MaxRows /\ AddCheck(w, u, item_name)
    \/ \E w \in Workers : AddCommit(w)
    \/ \E u \in Users, item_name \in RacedNames : RemoveFromInventory(u, item_name)
    \/ \E u \in Users : GetInventory(u)

SpecConcurrent == InitConcurrent /\ [][NextConcurrent]_vars

----------------------------------------------------------------------------
(* What the claims speak of.                                                *)

\* normalize of the specification, section 4.1: lower-case, then trim
Normalize(raw) == Strip(Lower(raw))

ListOps == {"available", "by-spirit", "search"}

\* the inventory the last request was evaluated against
EvaluatedInventory == Range(GetCurrentInventory(db, resp.user))

\* the recipe the adapter gave for an entry of the last answer: the stored
\* lookup response, or the last drink of that id in the stored search response
EvaluatedRecipe(id) ==
    IF resp.op = "search"
    THEN LET drinks == api_cache[CacheKey("search.php", resp.arg)]
             last == CHOOSE k \in 1..Len(drinks) :
                        /\ drinks[k].idDrink = id
                        /\ \A m \in (k + 1)..Len(drinks) : drinks[m].idDrink # id
         IN  drinks[last]
    ELSE api_cache[CacheKey("lookup.php", id)][1]

\* the ingredient names of a recipe, slot 1 to slot 15, empty slots left out
IngredientNames(recipe) ==
    LET NonEmpty(slot) == slot.strIngredient # <<>>
        filled == SelectSeq(recipe.slots, NonEmpty)
    IN  [k \in 1..Len(filled) |-> filled[k].strIngredient]

Entries == resp.body.cocktails
RespIds == {Entries[i].id : i \in 1..Len(Entries)}

\* the identifiers the stored filter.php response for an ingredient lists
FilterIds(ingredient) ==
    LET key == CacheKey("filter.php", ingredient)
    IN  IF key \in DOMAIN api_cache
        THEN {api_cache[key][k].idDrink : k \in 1..Len(api_cache[key])}
        ELSE {}

\* the source answered the lookup of id with a recipe / with drinks: null
Found(id) ==
    /\ CacheKey("lookup.php", id) \in DOMAIN api_cache
    /\ api_cache[CacheKey("lookup.php", id)] # <<>>
Absent(id) ==
    /\ CacheKey("lookup.php", id) \in DOMAIN api_cache
    /\ api_cache[CacheKey("lookup.php", id)] = <<>>

\* a <= b in the lexicographic order of the code points
LexLeq(a, b) ==
    \/ Len(a) <= Len(b) /\ \A i \in 1..Len(a) : a[i] = b[i]
    \/ \E k \in 1..Len(a) :
          /\ k <= Len(b)
          /\ \A i \in 1..(k - 1) : a[i] = b[i]
          /\ a[k] < b[k]

----------------------------------------------------------------------------
\* C1: in every answer of available, by-spirit and search, can_make is true if
\* and only if every ingredient name of the recipe, lower-cased and trimmed, is a
\* member of the inventory.
C1_CanMakeIffAllNormalizedPresent ==
    resp.op \in ListOps =>
        \A i \in 1..Len(Entries) :
            LET names == IngredientNames(EvaluatedRecipe(Entries[i].id))
            IN  Entries[i].can_make <=>
                    \A k \in 1..Len(names) : Normalize(names[k]) \in EvaluatedInventory

\* C2: in every answer of available, by-spirit and search, missing is the list of
\* the recipe's ingredients that are not in the inventory, in the order of the
\* recipe's slots (names as the answer spells them, lower-cased).
C2_MissingInRecipeOrder ==
    resp.op \in ListOps =>
        \A i \in 1..Len(Entries) :
            LET names == IngredientNames(EvaluatedRecipe(Entries[i].id))
                NotInInventory(n) == Lower(n) \notin EvaluatedInventory
                absent == SelectSeq(names, NotInInventory)
            IN  Entries[i].missing = [k \in 1..Len(absent) |-> Lower(absent[k])]

\* C3: an ingredient whose name differs from an inventory name only in letter
\* case or surrounding whitespace counts as present: it is not reported missing,
\* and a recipe made of such ingredients only has can_make true.
C3_MatchIgnoresCaseAndWhitespace ==
    resp.op \in ListOps =>
        \A i \in 1..Len(Entries) :
            LET names == IngredientNames(EvaluatedRecipe(Entries[i].id))
                InInventory(n) ==
                    \E m \in EvaluatedInventory : Normalize(m) = Normalize(n)
            IN  /\ \A k \in 1..Len(names) :
                      InInventory(names[k]) =>
                          \A x \in Range(Entries[i].missing) :
                              Normalize(x) # Normalize(names[k])
                /\ (\A k \in 1..Len(names) : InInventory(names[k])) => Entries[i].can_make

\* C4: every answer of available, by-spirit and search is sorted by
\* (not can_make, name): a makeable recipe never follows a non-makeable one, and
\* among recipes of one group the names ascend in code point order.
C4_SortedByCanMakeThenName ==
    resp.op \in ListOps =>
        \A i, j \in 1..Len(Entries) :
            i < j =>
                /\ Entries[j].can_make => Entries[i].can_make
                /\ Entries[i].can_make = Entries[j].can_make
                      => LexLeq(Entries[i].name, Entries[j].name)

\* C4's case: the answer Bee's Knees (makeable), Daiquiri (makeable), aviation (not)
C4_Witness ==
    /\ resp.op = "available"
    /\ Len(Entries) = 3
    /\ [i \in 1..3 |-> Entries[i].name] = <<s_BeesKnees, s_Daiquiri, s_aviation>>
    /\ [i \in 1..3 |-> Entries[i].can_make] = <<TRUE, TRUE, FALSE>>

\* C5: no recipe identifier appears twice in an answer of available (nor of
\* by-spirit), also when two inventory ingredients list the recipe and when one
\* list holds it twice.
C5_IdsDistinct ==
    resp.op \in {"available", "by-spirit"} =>
        \A i, j \in 1..Len(Entries) : i # j => Entries[i].id # Entries[j].id

\* C5's case: recipe 3 is in the answer, listed by rum and twice by gin
C5_Witness ==
    /\ resp.op = "available"
    /\ {s_rum, s_gin} \subseteq EvaluatedInventory
    /\ id3 \in FilterIds(s_rum)
    /\ CacheKey("filter.php", s_gin) \in DOMAIN api_cache
    /\ \E k, m \in 1..Len(api_cache[CacheKey("filter.php", s_gin)]) :
          /\ k # m
          /\ api_cache[CacheKey("filter.php", s_gin)][k].idDrink = id3
          /\ api_cache[CacheKey("filter.php", s_gin)][m].idDrink = id3
    /\ id3 \in RespIds

\* C6: when the filter.php lookup of an inventory ingredient fails, available
\* still answers (no exception), its answer holds every recipe found that an
\* ingredient whose lookup did not fail lists, and nothing else.
C6_FailedLookupIsEmpty ==
    resp.op = "available" =>
        LET inventory_items == EvaluatedInventory
            Succeeded(g) == CacheKey("filter.php", g) \notin Range(resp.log)
        IN  /\ resp.status = 200
            /\ \A g \in inventory_items :
                  Succeeded(g) => \A id \in FilterIds(g) : Found(id) => id \in RespIds
            /\ \A id \in RespIds :
                  \E g \in inventory_items : Succeeded(g) /\ id \in FilterIds(g)

\* C6's case: one ingredient's lookup failed and the answer holds recipes
C6_Witness ==
    /\ resp.op = "available"
    /\ \E g \in EvaluatedInventory : CacheKey("filter.php", g) \in Range(resp.log)
    /\ RespIds # {}

C8_AbsentIsSkipped ==
    resp.op \in {"available", "by-spirit"} =>
        LET seeds == IF resp.op = "available" THEN EvaluatedInventory
                     ELSE {Lower(resp.arg)}
        IN  /\ resp.status = 200
            /\ \A id \in RespIds : ~Absent(id)
            /\ \A g \in seeds : \A id \in FilterIds(g) : Found(id) => id \in RespIds

\* C8's case: a listed identifier is absent and the answer holds the others
C8_Witness ==
    /\ resp.op \in {"available", "by-spirit"}
    /\ \E g \in (IF resp.op = "available" THEN EvaluatedInventory ELSE {Lower(resp.arg)}) :
          \E id \in FilterIds(g) : Absent(id)
    /\ RespIds # {}

\* C9: the details endpoint answers 404 "not found" only when the source said
\* the recipe does not exist (the lookup answered drinks: null), never for a
\* lookup that failed.
C9_NotFoundOnlyWhenAbsent ==
    (resp.op = "details" /\ resp.status = 404) =>
        /\ Absent(resp.arg)
        /\ resp.log = <<>>

\* C10: the names stored for a user are pairwise distinct.
C10_NoDuplicateNames ==
    \A u \in Users :
        LET inventory_items == GetCurrentInventory(db, u)
        IN  \A i, j \in 1..Len(inventory_items) :
                i # j => inventory_items[i] # inventory_items[j]

\* the number of rows a user holds under a name
CountRows(rows, name, user_id) ==
    Cardinality({i \in 1..Len(rows) : rows[i].name = name /\ rows[i].user_id = user_id})

\* C11: when a POST /inventory/ request commits after another request for the
\* same user and name committed in between its existence query and its commit
\* (both queries came before both commits), the user holds exactly one item of
\* that name.
C11_ConcurrentAddsLeaveOne ==
    [][\A w \in Workers :
          (/\ inflight[w].pc = "checked"
           /\ inflight'[w].pc = "idle"
           /\ ~inflight[w].existing
           /\ ExistingItem(db, Lower(inflight[w].name), inflight[w].user))
          => CountRows(db', Lower(inflight[w].name), inflight[w].user) = 1]_vars

\* C12: a stored response stays in the cache as it is through every operation
\* and every change of the source's data, and a search or details request whose
\* signature is stored is answered from the stored response without a request
\* to the source (so none can fail), whatever the source now holds.
C12_StoredResponseServedForever ==
    [][/\ \A key \in DOMAIN api_cache :
              key \in DOMAIN api_cache' /\ api_cache'[key] = api_cache[key]
       /\ LET key == CacheKey("search.php", resp'.arg)
          IN  (resp'.op = "search" /\ key \in DOMAIN api_cache) =>
                  /\ resp'.log = <<>>
                  /\ resp'.status = 200
                  /\ {resp'.body.cocktails[i].id : i \in 1..Len(resp'.body.cocktails)}
                        = {api_cache[key][k].idDrink : k \in 1..Len(api_cache[key])}
       /\ LET key == CacheKey("lookup.php", resp'.arg)
          IN  (resp'.op = "details" /\ key \in DOMAIN api_cache) =>
                  /\ resp'.log = <<>>
                  /\ api_cache[key] = <<>> => resp'.status = 404
                  /\ api_cache[key] # <<>> =>
                        /\ resp'.status = 200
                        /\ resp'.body.cocktails[1].name = api_cache[key][1].strDrink]_vars

\* C12's case: after the source withdrew recipe 2, the details request is
\* answered with the recipe stored before
C12_Witness ==
    /\ source = 2
    /\ resp.op = "details"
    /\ resp.arg = id2
    /\ resp.status = 200
    /\ SourceData(source, "lookup.php", id2) = <<>>
    /\ resp.body.cocktails[1].name = s_aviation

\* the non-empty ingredient slots of a recipe, slot 1 to slot 15
FilledSlots(recipe) ==
    LET NonEmpty(slot) == slot.strIngredient # <<>>
    IN  SelectSeq(recipe.slots, NonEmpty)

\* C13: the ingredient list of every returned recipe (available, by-spirit,
\* search, details) has one entry per non-empty slot of the source recipe, in
\* slot order, each with the name (lower-cased, as the answers spell names) and
\* the measure (trimmed) of its slot; a name listed in two slots gives two entries.
C13_OneEntryPerSlot ==
    (resp.op \in ListOps \cup {"details"}) =>
        \A i \in 1..Len(Entries) :
            LET filled == FilledSlots(EvaluatedRecipe(Entries[i].id))
            IN  Entries[i].ingredients =
                    [k \in 1..Len(filled) |->
                        [name |-> Lower(filled[k].strIngredient),
                         measure |-> Strip(filled[k].strMeasure)]]

\* the names a POST /inventory/ or POST /inventory/add-common/ answer was given
PostedNames(r) == IF r.op = "add" THEN <<r.arg>> ELSE r.arg

\* C14: add_to_inventory and add_common_ingredients called with names that are
\* all empty after trimming leave the caller's inventory as it was.
C14_BlankNameNotStored ==
    [][(/\ resp'.op \in {"add", "add-common"}
        /\ \A k \in 1..Len(PostedNames(resp')) : Strip(PostedNames(resp')[k]) = <<>>)
       => GetCurrentInventory(db', resp'.user) = GetCurrentInventory(db, resp'.user)]_vars

\* the CocktailList body without cocktails
EmptyCocktailList == [cocktails |-> <<>>, can_make_count |-> 0, total_count |-> 0]

\* C15: a call of available by a user whose inventory is empty answers 200 with
\* the empty list (total_count 0, can_make_count 0) and sends no adapter
\* request: no failure is met and the cache is as it was.
C15_EmptyInventoryEmptyAnswer ==
    [][(resp'.op = "available" /\ GetCurrentInventory(db, resp'.user) = <<>>)
       => /\ resp'.status = 200
          /\ resp'.body = EmptyCocktailList
          /\ resp'.log = <<>>
          /\ api_cache' = api_cache]_vars

\* C15's case: available answered a user without inventory
C15_Witness ==
    /\ resp.op = "available"
    /\ GetCurrentInventory(db, resp.user) = <<>>
    /\ resp.status = 200
    /\ resp.body.total_count = 0

QueryOps == {"available", "by-spirit", "search", "details"}

\* C16: a query (available, by-spirit, search, details) leaves the table of
\* inventory items, of every user, exactly as it was; of the process's state it
\* changes nothing but the response cache.
C16_QueriesLeaveInventory ==
    [][resp'.op \in QueryOps
       => /\ db' = db
          /\ \A u \in Users : GetCurrentInventory(db', u) = GetCurrentInventory(db, u)
          /\ source' = source
          /\ hashorder' = hashorder
          /\ inflight' = inflight]_vars

\* C16's case: a query of a user with an inventory that stored responses
C16_Witness ==
    /\ resp.op \in QueryOps
    /\ GetCurrentInventory(db, resp.user) # <<>>
    /\ \E u \in Users : u # resp.user /\ GetCurrentInventory(db, u) # <<>>
    /\ api_cache # <<>>
    /\ Entries # <<>>

InventoryOps == {"inventory", "add", "remove", "add-common", "demo"}

\* C17: an inventory operation of user A (get, add, add-common, remove, demo)
\* leaves the items of every other user B as they were, and the inventory it
\* returns holds the items stored for A and nothing else: each name as many
\* times as A has a row of it.
C17_ScopedToCaller ==
    [][resp'.op \in InventoryOps
       => /\ \A B \in Users \ {resp'.user} : RowsOfUser(db', B) = RowsOfUser(db, B)
          /\ Len(resp'.body.inventory) =
                Cardinality({i \in 1..Len(db') : db'[i].user_id = resp'.user})
          /\ \A n \in Range(resp'.body.inventory) :
                Cardinality({k \in 1..Len(resp'.body.inventory) :
                                resp'.body.inventory[k] = n})
                    = CountRows(db', n, resp'.user)]_vars

\* C17's case: user 1 removed their rum while user 2 holds rum; user 2 keeps it
\* and the inventory returned to user 1 has none
C17_Witness ==
    /\ resp.op = "remove"
    /\ resp.user = 1
    /\ resp.body.message = "removed"
    /\ Lower(resp.arg) = s_rum
    /\ CountRows(db, s_rum, 2) = 1
    /\ s_rum \notin Range(resp.body.inventory)

\* the signature of the one adapter request a search or details call sends
OwnKey(r) ==
    CacheKey(IF r.op = "search" THEN "search.php" ELSE "lookup.php", r.arg)

\* C18: a failed adapter request stores nothing.  Whatever a call adds to the
\* cache is what the source serves; a search or details call whose request
\* failed answers as for an empty result (no recipes; 404 for details) and leaves
\* the cache as it was; and when the same call is made again right after and its
\* request succeeds, it stores and answers the source's data.
C18_FailureNotCached ==
    [][/\ \A key \in DOMAIN api_cache' \ DOMAIN api_cache :
              api_cache'[key] = SourceData(source, key[1], key[2])
       /\ (resp'.op \in {"search", "details"} /\ resp'.log # <<>>) =>
              /\ resp'.log = <<OwnKey(resp')>>
              /\ api_cache' = api_cache
              /\ OwnKey(resp') \notin DOMAIN api_cache'
              /\ resp'.body = EmptyCocktailList
              /\ resp'.status = IF resp'.op = "details" THEN 404 ELSE 200
       /\ (/\ resp.op \in {"search", "details"} /\ resp.log # <<>>
           /\ resp'.op = resp.op /\ resp'.arg = resp.arg /\ resp'.log = <<>>) =>
              /\ OwnKey(resp') \in DOMAIN api_cache'
              /\ api_cache'[OwnKey(resp')] = SourceData(source, OwnKey(resp')[1], resp'.arg)
              /\ {resp'.body.cocktails[i].id : i \in 1..Len(resp'.body.cocktails)}
                    = {SourceData(source, OwnKey(resp')[1], resp'.arg)[k].idDrink :
                          k \in 1..Len(SourceData(source, OwnKey(resp')[1], resp'.arg))}]_vars

\* C18's case: within one by-spirit call the lookup of recipe 3 failed, was sent
\* again (the recipe is listed twice), succeeded, and the recipe is in the answer
C18_Witness ==
    /\ resp.op = "by-spirit"
    /\ CacheKey("lookup.php", id3) \in Range(resp.log)
    /\ CacheKey("lookup.php", id3) \in DOMAIN api_cache
    /\ api_cache[CacheKey("lookup.php", id3)] = <<BeesKnees>>
    /\ id3 \in RespIds

\* C19: after remove_from_inventory(x) the caller's inventory holds no name
\* equal to x normalized; and when x was not in the inventory the call says so
\* and the inventory is as it was.
C19_RemovedNameIsGone ==
    [][resp'.op = "remove"
       => /\ \A n \in Range(GetCurrentInventory(db', resp'.user)) :
                n # Normalize(resp'.arg)
          /\ (\A n \in Range(GetCurrentInventory(db, resp'.user)) :
                 n # Normalize(resp'.arg))
              => /\ resp'.body.message = "not in your inventory"
                 /\ GetCurrentInventory(db', resp'.user)
                        = GetCurrentInventory(db, resp'.user)]_vars

\* the number of entries of a list that satisfy can_make, counted one by one
RECURSIVE NumCanMake(_)
NumCanMake(entries) ==
    IF entries = <<>> THEN 0
    ELSE (IF Head(entries).can_make THEN 1 ELSE 0) + NumCanMake(Tail(entries))

\* C20: in every answer of available, by-spirit and search, total_count is the
\* length of the list, can_make_count is the number of entries with can_make
\* true, and these entries are exactly the first can_make_count of the list.
C20_CountsMatchList ==
    resp.op \in ListOps =>
        /\ resp.body.total_count = Len(Entries)
        /\ resp.body.can_make_count = NumCanMake(Entries)
        /\ \A i \in 1..Len(Entries) :
              Entries[i].can_make <=> i <= resp.body.can_make_count

\* C20's case: an answer of three recipes of which two, not all, can be made
C20_Witness ==
    /\ resp.op \in ListOps
    /\ resp.body.total_count = 3
    /\ resp.body.can_make_count = 2
    /\ ~Entries[3].can_make

====
